---- MODULE Spec2Model ----
(***************************************************************************)
(* A model of src/index.js: the ramen menu browser.                        *)
(*                                                                         *)
(* The script runs in a single-threaded, event-driven host.  Every action  *)
(* below is one task of the event loop: the DOMContentLoaded notification, *)
(* a user activation (click) of a node of #ramen-menu, a form submission,  *)
(* or the settlement of one fetch with the whole promise chain attached to *)
(* it (the .then/.then/.catch callbacks run as microtasks, which no other  *)
(* task can interleave).                                                   *)
(*                                                                         *)
(* JavaScript values are tagged records [t |-> type, ...]; DOM attributes  *)
(* and text contents are TLA+ strings, obtained from JavaScript values by  *)
(* the conversions the DOM setters apply.                                  *)
(***************************************************************************)
EXTENDS Integers, Sequences, FiniteSets

VARIABLES
    booted,       \* DOMContentLoaded has fired and main() has run
    ramenMenu,    \* the children of #ramen-menu, in document order
    detail,       \* the detail view: #detail-image (src, alt) and four texts
    form,         \* the current values of the five fields of #new-ramen
    submitArmed,  \* handleFormSubmit is attached to #new-ramen
    fetches,      \* every fetch() issued so far, in order of issue
    settled,      \* history: the settlements handled so far, in order
    activations,  \* history: the nodes the user activated, in order
    submits       \* history: the number of form submissions handled

vars == <<booted, ramenMenu, detail, form, submitArmed, fetches, settled,
          activations, submits>>

(***************************************************************************)
(* Bounds of the model.                                                    *)
(***************************************************************************)
MaxItems == 2     \* longest array the collection endpoint returns
MaxClicks == 2    \* user activations in one run
MaxSubmits == 1   \* form submissions in one run

(***************************************************************************)
(* JavaScript values.                                                      *)
(***************************************************************************)
Str(s) == [t |-> "string", v |-> s]
Num(s) == [t |-> "number", v |-> s]      \* v is the decimal literal
Null == [t |-> "null", v |-> "null"]
Undefined == [t |-> "undefined", v |-> "undefined"]
Arr(elems) == [t |-> "array", elems |-> elems]
Obj(id, name, restaurant, image, rating, comment) ==
    [t |-> "object", id |-> id, name |-> name, restaurant |-> restaurant,
     image |-> image, rating |-> rating, comment |-> comment]

\* String(v): what a DOMString / USVString setter and a template literal
\* store for a primitive value.
DOMString(v) == v.v

\* What the textContent setter (a nullable DOMString) stores.
TextContent(v) == IF v.t \in {"null", "undefined"} THEN "" ELSE v.v

\* ToBoolean(v), as used by the `!x` tests.
Truthy(v) ==
    CASE v.t = "string" -> v.v # ""
      [] v.t = "number" -> v.v # "0"
      [] v.t \in {"null", "undefined"} -> FALSE
      [] OTHER -> TRUE

baseURL == "http://localhost:3000"

(***************************************************************************)
(* The remote source: what the two endpoints may answer.                   *)
(***************************************************************************)
Shoyu == Obj(Num("1"), Str("Shoyu"), Str("A"), Str("a.jpg"), Str("8"), Str("good"))
Tonkotsu == Obj(Str("t2"), Str("Tonkotsu"), Str("B"), Str("t.jpg"), Num("7"), Str(""))
\* a record whose identifier is the empty text: it yields a malformed node
Nameless == Obj(Str(""), Str("Kojiro"), Str("C"), Str("k.jpg"), Num("0"), Str("n/a"))

Items == {Shoyu, Tonkotsu}
Records == Items \cup {Nameless}

\* the sequences of at most n distinct elements of S (identifiers are unique)
SeqsUpTo(S, n) ==
    {s \in UNION {[1..k -> S] : k \in 0..n} :
        \A i, j \in DOMAIN s : i # j => s[i] # s[j]}

NetworkError == [kind |-> "reject"]
Http(ok, body) == [kind |-> "response", ok |-> ok, body |-> body]
BadJson == [t |-> "invalid"]              \* response.json() rejects

\* bodies of a success status that are no array of records
MalformedBodies ==
    {BadJson, Null, Shoyu, Arr(<<Null>>), Arr(<<Shoyu, Null>>)}

CollectionBodies ==
    {Arr(s) : s \in SeqsUpTo(Records, MaxItems)} \cup MalformedBodies
CollectionResponses ==
    {NetworkError, Http(FALSE, Null)} \cup {Http(TRUE, b) : b \in CollectionBodies}

\* GET {base}/ramens/{id}: the record of that identifier, an empty body, a
\* non-success status, or no answer at all
ItemBodies(ramenId) == {it \in Items : DOMString(it.id) = ramenId} \cup {Null}
ItemResponses(ramenId) ==
    {NetworkError, Http(FALSE, Null)} \cup {Http(TRUE, b) : b \in ItemBodies(ramenId)}
AllItemResponses == UNION {ItemResponses(DOMString(it.id)) : it \in Items}

(***************************************************************************)
(* The visual tree.                                                        *)
(***************************************************************************)
\* An element: dataset is a set of <<key, value>> pairs, listeners a set of
\* <<event, handler>> pairs.
Node(tag, src, alt, class, dataset, listeners, text) ==
    [tag |-> tag, src |-> src, alt |-> alt, class |-> class,
     dataset |-> dataset, listeners |-> listeners, text |-> text]

\* element.dataset[key]
DatasetGet(n, key) ==
    LET vs == {p[2] : p \in {q \in n.dataset : q[1] = key}}
    IN  IF vs = {} THEN Undefined ELSE Str(CHOOSE x \in vs : TRUE)

FailureMessage ==
    Node("p", "", "", "", {}, {}, "Failed to load ramen menu. Is the server running?")

InitialDetail ==
    [src |-> "(initial image)", alt |-> "(initial alt)", name |-> "(initial name)",
     restaurant |-> "(initial restaurant)", rating |-> "(initial rating)",
     comment |-> "(initial comment)"]

EmptyForm ==
    [name |-> "", restaurant |-> "", image |-> "", rating |-> "", comment |-> ""]

\* what the user may type into the form
FormInputs ==
    {[name |-> "Miso", restaurant |-> "D", image |-> "b.jpg", rating |-> "9",
      comment |-> " salty "]}

Init ==
    /\ booted = FALSE
    /\ ramenMenu = << >>
    /\ detail = InitialDetail
    /\ form = EmptyForm
    /\ submitArmed = FALSE
    /\ fetches = << >>
    /\ settled = << >>
    /\ activations = << >>
    /\ submits = 0

(***************************************************************************)
(* displayRamens: the request, and what its promise chain does.            *)
(***************************************************************************)
Fetch(url, handler, ramenId) ==
    [url |-> url, handler |-> handler, ramenId |-> ramenId, state |-> "pending"]

\* mutant: main's request is issued twice
DisplayRamensTwice(fs) ==
    Append(Append(fs, Fetch(baseURL \o "/ramens", "displayRamens", "")),
           Fetch(baseURL \o "/ramens", "displayRamens", ""))

\* fetch(`${baseURL}/ramens`)
DisplayRamens(fs) == Append(fs, Fetch(baseURL \o "/ramens", "displayRamens", ""))

\* mutant: the img is built without `img.dataset.id = ramen.id`
MenuImageNoId(ramen) ==
    Node("img", DOMString(ramen.image), DOMString(ramen.name), "ramen-avatar",
         {}, {<<"click", "handleClick">>}, "")

\* the img built by one turn of ramens.forEach
MenuImage(ramen) ==
    Node("img", DOMString(ramen.image), DOMString(ramen.name), "ramen-avatar",
         {<<"id", DOMString(ramen.id)>>}, {<<"click", "handleClick">>}, "")

\* mutant: each img is inserted before the others instead of appended
RenderMenuPrepending(ramens) ==
    [i \in 1..Len(ramens) |-> MenuImage(ramens[Len(ramens) + 1 - i])]

\* ramens.forEach(...) appends one img per element, in order
RenderMenu(ramens) == [i \in 1..Len(ramens) |-> MenuImage(ramens[i])]

\* the first .then: a non-ok status throws, response.json() may reject
Decodes(resp) == resp.kind = "response" /\ resp.ok /\ resp.body # BadJson

\* the number of turns ramens.forEach completes before `ramen.image` throws
\* on an element that is no object
TurnsBeforeThrow(elems) ==
    IF \A i \in 1..Len(elems) : elems[i].t = "object"
    THEN Len(elems)
    ELSE (CHOOSE i \in 1..Len(elems) :
              /\ elems[i].t # "object"
              /\ \A j \in 1..(i - 1) : elems[j].t = "object") - 1

\* the second .then runs to its end: ramens.forEach exists and no turn throws
Renders(ramens) ==
    /\ ramens.t = "array"
    /\ TurnsBeforeThrow(ramens.elems) = Len(ramens.elems)

\* mutant: the second .then without its `ramenMenuDiv.innerHTML = ''`
BuiltMenuMerging(resp, menu) ==
    IF ~Decodes(resp) THEN menu
    ELSE IF resp.body.t # "array" THEN menu
    ELSE menu \o RenderMenu(SubSeq(resp.body.elems, 1,
                                   TurnsBeforeThrow(resp.body.elems)))

\* #ramen-menu at the moment the chain leaves the second .then, normally or
\* by a throw: untouched if the first .then threw, else cleared and filled
\* by the turns of forEach that ran
BuiltMenu(resp, menu) ==
    IF ~Decodes(resp) THEN menu
    ELSE IF resp.body.t # "array" THEN << >>
    ELSE RenderMenu(SubSeq(resp.body.elems, 1, TurnsBeforeThrow(resp.body.elems)))

\* mutant: the .catch only logs
RamensFailureLogOnly(menu) == menu

\* mutant: the .catch adds the message to what the container holds
RamensFailureAppending(menu) == Append(menu, FailureMessage)

\* the .catch of displayRamens: innerHTML = '<p>...</p>' replaces the content
RamensFailure(menu) == <<FailureMessage>>

\* #ramen-menu once the whole chain has run for resp
RamensOutcome(resp, menu) ==
    IF Decodes(resp) /\ Renders(resp.body)
    THEN BuiltMenu(resp, menu)
    ELSE RamensFailure(BuiltMenu(resp, menu))

(***************************************************************************)
(* handleClick, renderDetail.                                              *)
(***************************************************************************)
\* mutant: handleClick without its `if (!ramenId) return`
HandleClickUnguarded(target, fs) ==
    Append(fs, Fetch(baseURL \o "/ramens/" \o DOMString(DatasetGet(target, "id")),
                     "handleClick", DOMString(DatasetGet(target, "id"))))

\* the synchronous part of handleClick: the guard and the fetch
HandleClick(target, fs) ==
    LET ramenId == DatasetGet(target, "id")
    IN  IF ~Truthy(ramenId)
        THEN fs
        ELSE Append(fs, Fetch(baseURL \o "/ramens/" \o DOMString(ramenId),
                              "handleClick", DOMString(ramenId)))

\* mutant: the rating and comment slots are filled from each other's field
RenderDetailSwapped(ramen, d) ==
    IF ~Truthy(ramen)
    THEN d
    ELSE [src |-> DOMString(ramen.image),
          alt |-> "Image of " \o DOMString(ramen.name),
          name |-> TextContent(ramen.name),
          restaurant |-> TextContent(ramen.restaurant),
          rating |-> TextContent(ramen.comment),
          comment |-> TextContent(ramen.rating)]

\* mutant: renderDetail without its `if (!ramen) return`; reading `ramen.image`
\* of null throws inside the .then, and the .catch of handleClick runs
RenderDetailUnguarded(ramen, d) ==
    IF ~Truthy(ramen)
    THEN [d EXCEPT !.name = "Error loading details", !.restaurant = "",
                   !.rating = "", !.comment = "", !.src = "placeholder.jpg"]
    ELSE [src |-> DOMString(ramen.image),
          alt |-> "Image of " \o DOMString(ramen.name),
          name |-> TextContent(ramen.name),
          restaurant |-> TextContent(ramen.restaurant),
          rating |-> TextContent(ramen.rating),
          comment |-> TextContent(ramen.comment)]

RenderDetail(ramen, d) ==
    IF ~Truthy(ramen)
    THEN d
    ELSE [src |-> DOMString(ramen.image),
          alt |-> "Image of " \o DOMString(ramen.name),
          name |-> TextContent(ramen.name),
          restaurant |-> TextContent(ramen.restaurant),
          rating |-> TextContent(ramen.rating),
          comment |-> TextContent(ramen.comment)]

\* mutant: the .catch leaves the rating slot as it was
ErrorDetailKeepsRating(d) ==
    [d EXCEPT !.name = "Error loading details", !.restaurant = "",
              !.comment = "", !.src = "placeholder.jpg"]

\* the .catch of handleClick
ErrorDetail(d) ==
    [d EXCEPT !.name = "Error loading details", !.restaurant = "",
              !.rating = "", !.comment = "", !.src = "placeholder.jpg"]

\* mutant: a response is dropped unless it answers the latest request
RamenOutcomeLatestRequestOnly(k, resp, d) ==
    IF \E h \in DOMAIN fetches : h > k /\ fetches[h].handler = "handleClick"
    THEN d
    ELSE IF Decodes(resp) THEN RenderDetail(resp.body, d) ELSE ErrorDetail(d)

\* the detail view once the whole chain of fetch k has run for resp
RamenOutcome(k, resp, d) ==
    IF Decodes(resp) THEN RenderDetail(resp.body, d) ELSE ErrorDetail(d)

(***************************************************************************)
(* handleFormSubmit, addNewRamenToMenu.                                    *)
(***************************************************************************)
NewRamen(f) ==
    Obj(Undefined, Str(f.name), Str(f.restaurant), Str(f.image), Str(f.rating),
        Str(f.comment))

\* mutant: the new img is made clickable (a temporary identifier and the handler)
NewMenuImageClickable(ramenData) ==
    Node("img", DOMString(ramenData.image), DOMString(ramenData.name),
         "ramen-avatar", {<<"id", "temp-1">>}, {<<"click", "handleClick">>}, "")

\* mutant: the new img gets the handler and the submitted name as identifier
NewMenuImageByName(ramenData) ==
    Node("img", DOMString(ramenData.image), DOMString(ramenData.name),
         "ramen-avatar", {<<"id", DOMString(ramenData.name)>>},
         {<<"click", "handleClick">>}, "")

NewMenuImage(ramenData) ==
    Node("img", DOMString(ramenData.image), DOMString(ramenData.name),
         "ramen-avatar", {}, {}, "")

\* mutant: the new img is put first (prepend instead of appendChild)
AddNewRamenToMenuPrepending(ramenData, menu) == <<NewMenuImage(ramenData)>> \o menu

AddNewRamenToMenu(ramenData, menu) == Append(menu, NewMenuImage(ramenData))

\* event.target.reset()
ResetForm(f) == EmptyForm

(***************************************************************************)
(* The tasks of the event loop.                                            *)
(***************************************************************************)
\* DOMContentLoaded: main()
Main ==
    /\ ~booted
    /\ booted' = TRUE
    /\ fetches' = DisplayRamens(fetches)
    /\ submitArmed' = TRUE
    /\ UNCHANGED <<ramenMenu, detail, form, settled, activations, submits>>

\* mutant: activations are ignored while any request is in flight
ClickWhenIdle(i) ==
    /\ \A k \in DOMAIN fetches : fetches[k].state # "pending"
    /\ i \in DOMAIN ramenMenu
    /\ Len(activations) < MaxClicks
    /\ activations' = Append(activations, ramenMenu[i])
    /\ fetches' = IF <<"click", "handleClick">> \in ramenMenu[i].listeners
                  THEN HandleClick(ramenMenu[i], fetches)
                  ELSE fetches
    /\ UNCHANGED <<booted, ramenMenu, detail, form, submitArmed, settled, submits>>

\* the user activates the i-th child of #ramen-menu
Click(i) ==
    /\ i \in DOMAIN ramenMenu
    /\ Len(activations) < MaxClicks
    /\ activations' = Append(activations, ramenMenu[i])
    /\ fetches' = IF <<"click", "handleClick">> \in ramenMenu[i].listeners
                  THEN HandleClick(ramenMenu[i], fetches)
                  ELSE fetches
    /\ UNCHANGED <<booted, ramenMenu, detail, form, submitArmed, settled, submits>>

\* the collection request k settles with resp
RamensSettle(k, resp) ==
    /\ k \in DOMAIN fetches
    /\ fetches[k].state = "pending"
    /\ fetches[k].handler = "displayRamens"
    /\ resp \in CollectionResponses
    /\ ramenMenu' = RamensOutcome(resp, ramenMenu)
    /\ fetches' = [fetches EXCEPT ![k].state = "settled"]
    /\ settled' = Append(settled, [k |-> k, resp |-> resp])
    /\ UNCHANGED <<booted, detail, form, submitArmed, activations, submits>>

\* the single-item request k settles with resp
RamenSettle(k, resp) ==
    /\ k \in DOMAIN fetches
    /\ fetches[k].state = "pending"
    /\ fetches[k].handler = "handleClick"
    /\ resp \in ItemResponses(fetches[k].ramenId)
    /\ detail' = RamenOutcome(k, resp, detail)
    /\ fetches' = [fetches EXCEPT ![k].state = "settled"]
    /\ settled' = Append(settled, [k |-> k, resp |-> resp])
    /\ UNCHANGED <<booted, ramenMenu, form, submitArmed, activations, submits>>

\* the user types into the form
FillForm(f) ==
    /\ f \in FormInputs
    /\ f # form
    /\ submits < MaxSubmits
    /\ form' = f
    /\ UNCHANGED <<booted, ramenMenu, detail, submitArmed, fetches, settled,
                   activations, submits>>

\* the user submits the form: handleFormSubmit
HandleFormSubmit ==
    /\ submitArmed
    /\ submits < MaxSubmits
    /\ ramenMenu' = AddNewRamenToMenu(NewRamen(form), ramenMenu)
    /\ form' = ResetForm(form)
    /\ submits' = submits + 1
    /\ UNCHANGED <<booted, detail, submitArmed, fetches, settled, activations>>

Activate == \E i \in DOMAIN ramenMenu : Click(i)
CollectionSettles ==
    \E k \in DOMAIN fetches, resp \in CollectionResponses : RamensSettle(k, resp)
ItemSettles ==
    \E k \in DOMAIN fetches, resp \in AllItemResponses : RamenSettle(k, resp)
Types == \E f \in FormInputs : FillForm(f)

Next ==
    \/ Main
    \/ Activate
    \/ CollectionSettles
    \/ ItemSettles
    \/ Types
    \/ HandleFormSubmit

Spec == Init /\ [][Next]_vars

(***************************************************************************)
(* Vocabulary of the properties.                                           *)
(***************************************************************************)
ClickWired(n) == <<"click", "handleClick">> \in n.listeners
HasIdentifier(n) == \E p \in n.dataset : p[1] = "id" /\ p[2] # ""
Selectable(n) == HasIdentifier(n) /\ ClickWired(n)
Inert(n) == n.dataset = {} /\ n.listeners = {}
IdentifierOf(n) == CHOOSE x \in {p[2] : p \in {q \in n.dataset : q[1] = "id"}} : TRUE

\* an Item of the remote source: a record with a non-null identifier
IsItem(e) == e.t = "object" /\ e.id.t \in {"string", "number"} /\ e.id.v # ""

\* resp is a successful collection response returning a sequence of Items
ItemSequence(resp) ==
    /\ resp.kind = "response"
    /\ resp.ok
    /\ resp.body.t = "array"
    /\ \A i \in 1..Len(resp.body.elems) : IsItem(resp.body.elems[i])

\* resp is a transport error or a non-success status
Failed(resp) == resp.kind = "reject" \/ ~resp.ok

\* resp is a successful single-item response carrying an Item
ItemFetched(resp) == resp.kind = "response" /\ resp.ok /\ IsItem(resp.body)

\* the positions of `settled` by the handler of the settled request
SettledBy(handler) == {j \in DOMAIN settled : fetches[settled[j].k].handler = handler}
IssuedBy(handler) == {k \in DOMAIN fetches : fetches[k].handler = handler}

\* the detail view showing exactly the Item it
Snapshot(it) ==
    [src |-> it.image.v, alt |-> "Image of " \o it.name.v, name |-> it.name.v,
     restaurant |-> it.restaurant.v, rating |-> it.rating.v, comment |-> it.comment.v]

\* this step handles one settlement / one activation / one submission
Settles == Len(settled') = Len(settled) + 1
Activates == Len(activations') = Len(activations) + 1
Submits == submits' = submits + 1
NewSettlement == settled'[Len(settled')]
NewTarget == activations'[Len(activations')]

(***************************************************************************)
(* C1 (render completeness).  Once displayRamens has handled a successful  *)
(* collection response returning a sequence of N Items, #ramen-menu holds  *)
(* exactly N selectable nodes (identifier-bearing and click-wired), and    *)
(* its i-th node carries the i-th Item's image reference and identifier;   *)
(* being an invariant, this holds in every later state as well.            *)
(***************************************************************************)
C1_RenderCompleteness ==
    \A j \in SettledBy("displayRamens") :
        ItemSequence(settled[j].resp) =>
            LET items == settled[j].resp.body.elems
            IN  /\ Cardinality({i \in DOMAIN ramenMenu : Selectable(ramenMenu[i])})
                       = Len(items)
                /\ \A i \in 1..Len(items) :
                       /\ i \in DOMAIN ramenMenu
                       /\ Selectable(ramenMenu[i])
                       /\ ramenMenu[i].src = items[i].image.v
                       /\ IdentifierOf(ramenMenu[i]) = items[i].id.v

C1_Witness ==
    /\ \E j \in SettledBy("displayRamens") :
           /\ ItemSequence(settled[j].resp)
           /\ Len(settled[j].resp.body.elems) = 2
    /\ submits = 1
    /\ Len(ramenMenu) = 3
    /\ \E a \in DOMAIN activations : Selectable(activations[a])
    /\ \E a \in DOMAIN activations : Inert(activations[a])

(***************************************************************************)
(* C2 (detail fidelity).  Every step that handles a successful single-item *)
(* response carrying an Item leaves the five slots of the detail view      *)
(* equal to that Item's fields and the image's accessible text equal to    *)
(* "Image of " followed by the Item's name.                                *)
(***************************************************************************)
C2_DetailFidelity ==
    [][(Settles /\ fetches[NewSettlement.k].handler = "handleClick"
                /\ ItemFetched(NewSettlement.resp))
           => detail' = Snapshot(NewSettlement.resp.body)]_vars

C2_Witness ==
    /\ settled # << >>
    /\ LET e == settled[Len(settled)]
       IN  /\ fetches[e.k].handler = "handleClick"
           /\ e.resp = Http(TRUE, Tonkotsu)
    /\ detail.rating = "7"
    /\ detail.alt = "Image of Tonkotsu"

(***************************************************************************)
(* C3 (append isolation).  Every form submission adds exactly one node to  *)
(* #ramen-menu, a node with no identifier and no activation handler; and   *)
(* every activation of a node with neither issues no request and leaves    *)
(* the detail view unchanged.                                              *)
(***************************************************************************)
C3_AppendIsolation ==
    [][/\ Submits =>
            /\ Len(ramenMenu') = Len(ramenMenu) + 1
            /\ Inert(ramenMenu'[Len(ramenMenu')])
       /\ (Activates /\ Inert(NewTarget)) =>
            /\ fetches' = fetches
            /\ detail' = detail]_vars

C3_Witness ==
    /\ submits = 1
    /\ \E a \in DOMAIN activations :
           /\ Inert(activations[a])
           /\ activations[a].tag = "img"
           /\ activations[a].alt = "Miso"
    /\ IssuedBy("handleClick") = {}

(***************************************************************************)
(* C4 (failure isolation).  Once displayRamens has handled a failed        *)
(* collection request (transport error or non-success status), #ramen-menu *)
(* holds exactly one failure message and no selectable node, in that state *)
(* and in every later one.                                                 *)
(***************************************************************************)
C4_FailureIsolation ==
    (\E j \in SettledBy("displayRamens") : Failed(settled[j].resp)) =>
        /\ Cardinality({i \in DOMAIN ramenMenu : ramenMenu[i] = FailureMessage}) = 1
        /\ \A i \in DOMAIN ramenMenu :
               ~ClickWired(ramenMenu[i]) /\ ~HasIdentifier(ramenMenu[i])

C4_Witness ==
    /\ \E j \in SettledBy("displayRamens") : settled[j].resp = Http(FALSE, Null)
    /\ Len(ramenMenu) = 2
    /\ ramenMenu[1] = FailureMessage
    /\ Len(activations) = 2

(***************************************************************************)
(* C5 (bad activation is a no-op).  Every run of handleClick for a node    *)
(* whose stored identifier is absent (empty) issues no request and leaves  *)
(* every slot of the detail view as it was.                                *)
(***************************************************************************)
C5_BadActivationNoOp ==
    [][(Activates /\ ClickWired(NewTarget) /\ ~HasIdentifier(NewTarget))
           => fetches' = fetches /\ detail' = detail]_vars

C5_Witness ==
    /\ \E a \in DOMAIN activations :
           ClickWired(activations[a]) /\ ~HasIdentifier(activations[a])
    /\ detail = Snapshot(Shoyu)

\* the detail view is in the explicit error state of handleClick's .catch
ErrorShown ==
    /\ detail.name = "Error loading details"
    /\ detail.restaurant = ""
    /\ detail.rating = ""
    /\ detail.comment = ""
    /\ detail.src = "placeholder.jpg"

Pending(handler) == {k \in IssuedBy(handler) : fetches[k].state = "pending"}

(***************************************************************************)
(* C6 (item-load error state).  Every step that handles a failed           *)
(* single-item request (transport error or non-success status) leaves the  *)
(* detail view in the error state: the name slot shows the fixed error     *)
(* string, the restaurant, rating and comment slots are empty, the image   *)
(* holds the placeholder reference; and the step issues no request.        *)
(***************************************************************************)
C6_ItemLoadErrorState ==
    [][(Settles /\ fetches[NewSettlement.k].handler = "handleClick"
                /\ Failed(NewSettlement.resp))
           => /\ ErrorShown'
              /\ Len(fetches') = Len(fetches)
              /\ Pending("handleClick")' = Pending("handleClick") \ {NewSettlement.k}]_vars

C6_Witness ==
    /\ Len(settled) = 3
    /\ fetches[settled[2].k].handler = "handleClick"
    /\ ItemFetched(settled[2].resp)
    /\ fetches[settled[3].k].handler = "handleClick"
    /\ settled[3].resp = Http(FALSE, Null)
    /\ ErrorShown

(***************************************************************************)
(* C7 (last response wins).  Every single-item request in flight can be    *)
(* handled next, whatever the order of the activations (none is cancelled, *)
(* none waits for another); and once none is in flight, the detail view    *)
(* shows the outcome of the response handled last: the snapshot of its     *)
(* Item, or the error state if it failed.                                  *)
(***************************************************************************)
C7_LastResponseWins ==
    /\ \A k \in Pending("handleClick") :
           ENABLED (\E resp \in AllItemResponses : RamenSettle(k, resp))
    /\ (Pending("handleClick") = {} /\ SettledBy("handleClick") # {}) =>
           LET last == CHOOSE j \in SettledBy("handleClick") :
                           \A h \in SettledBy("handleClick") : h <= j
               resp == settled[last].resp
           IN  /\ ItemFetched(resp) => detail = Snapshot(resp.body)
               /\ Failed(resp) => ErrorShown

\* two requests were in flight together and were handled in the order
\* opposite to their activations, with different outcomes
C7_Witness ==
    /\ Pending("handleClick") = {}
    /\ \E a, b \in SettledBy("handleClick") :
           /\ a < b
           /\ settled[a].k > settled[b].k
           /\ settled[a].resp = Http(TRUE, Tonkotsu)
           /\ settled[b].resp = Http(TRUE, Shoyu)
           /\ b = Len(settled)
    /\ detail = Snapshot(Shoyu)

(***************************************************************************)
(* C8 (the detail view is bound to one Item at a time).  In every          *)
(* reachable state the displayed data (image reference, accessible text,   *)
(* name, restaurant, rating, comment) is the untouched initial content,    *)
(* the complete snapshot of one Item, or the error state with no data of   *)
(* an Item left beside it.                                                 *)
(***************************************************************************)
C8_SingleBinding ==
    \/ detail = InitialDetail
    \/ \E it \in Items : detail = Snapshot(it)
    \/ /\ ErrorShown
       /\ \A it \in Items : detail.alt # Snapshot(it).alt

(***************************************************************************)
(* C9 (the Collection Loader runs once).  No collection request is issued  *)
(* before main has run, and from then on exactly one has been issued, the  *)
(* first request of the run, whether it succeeds, fails or never           *)
(* completes and whatever activations and submissions occur.               *)
(***************************************************************************)
C9_LoaderRunsOnce ==
    /\ IssuedBy("displayRamens") = (IF booted THEN {1} ELSE {})
    /\ \A k \in DOMAIN fetches :
           fetches[k].url = baseURL \o "/ramens" <=> fetches[k].handler = "displayRamens"

C9_Witness ==
    /\ booted
    /\ Pending("displayRamens") = {1}
    /\ submits = 1
    /\ Len(activations) = 2

(***************************************************************************)
(* C10 (identifier invariant).  A node of #ramen-menu carries an           *)
(* identifier and an activation handler if and only if the Collection      *)
(* Loader created it from an Item of the collection response; every        *)
(* single-item request issued carries the identifier of an Item of that    *)
(* response; and there are exactly as many single-item requests as         *)
(* activations of such nodes.                                              *)
(***************************************************************************)
\* the records the Collection Loader has rendered (empty before it does)
Rendered ==
    IF \E j \in SettledBy("displayRamens") :
           /\ settled[j].resp.kind = "response"
           /\ settled[j].resp.ok
           /\ settled[j].resp.body.t = "array"
           /\ \A i \in 1..Len(settled[j].resp.body.elems) :
                  settled[j].resp.body.elems[i].t = "object"
    THEN settled[CHOOSE j \in SettledBy("displayRamens") : TRUE].resp.body.elems
    ELSE << >>

C10_IdentifierInvariant ==
    /\ \A i \in DOMAIN ramenMenu :
           Selectable(ramenMenu[i]) <=> (i \in DOMAIN Rendered /\ IsItem(Rendered[i]))
    /\ \A k \in IssuedBy("handleClick") :
           \E i \in DOMAIN Rendered :
               /\ IsItem(Rendered[i])
               /\ fetches[k].url = baseURL \o "/ramens/" \o Rendered[i].id.v
    /\ Cardinality(IssuedBy("handleClick"))
           = Cardinality({a \in DOMAIN activations : Selectable(activations[a])})

C10_Witness ==
    /\ Len(activations) = 2
    /\ Selectable(activations[1])
    /\ ClickWired(activations[2]) /\ ~HasIdentifier(activations[2])
    /\ Cardinality(IssuedBy("handleClick")) = 1
    /\ \E i \in DOMAIN ramenMenu : Inert(ramenMenu[i])

\* resp makes the chain of displayRamens run to the end of its second .then
RendersAll(resp) ==
    /\ resp.kind = "response"
    /\ resp.ok
    /\ resp.body.t = "array"
    /\ \A i \in 1..Len(resp.body.elems) : resp.body.elems[i].t = "object"

(***************************************************************************)
(* C11 (collection render replaces, never merges).  Every step that        *)
(* handles the collection response leaves in #ramen-menu only the nodes of *)
(* the returned records, one per record and in order (success), or only    *)
(* the failure message (failure); a node appended by the form while the    *)
(* request was pending is not among them.                                  *)
(***************************************************************************)
C11_ReplaceNeverMerge ==
    [][(Settles /\ fetches[NewSettlement.k].handler = "displayRamens") =>
           LET resp == NewSettlement.resp
           IN  /\ RendersAll(resp) =>
                      /\ Len(ramenMenu') = Len(resp.body.elems)
                      /\ \A i \in DOMAIN ramenMenu' :
                             /\ ClickWired(ramenMenu'[i])
                             /\ ramenMenu'[i].src = resp.body.elems[i].image.v
               /\ ~RendersAll(resp) => ramenMenu' = <<FailureMessage>>
               /\ \A i \in DOMAIN ramenMenu' : ~(ramenMenu'[i].tag = "img"
                                                  /\ Inert(ramenMenu'[i]))]_vars

\* the form was submitted, the collection response was handled, and the
\* appended node is gone: the submission came while the request was pending
C11_Witness ==
    /\ submits = 1
    /\ \E j \in SettledBy("displayRamens") :
           /\ RendersAll(settled[j].resp)
           /\ Len(settled[j].resp.body.elems) = 2
    /\ Len(ramenMenu) = 2
    /\ \A i \in DOMAIN ramenMenu : Selectable(ramenMenu[i])

(***************************************************************************)
(* C12 (local append: effect and frame).  Every form submission puts one   *)
(* new node at the end of #ramen-menu, whose image reference is the        *)
(* submitted image value and whose accessible text is the submitted name   *)
(* value, both verbatim; the nodes already there keep their place, the     *)
(* detail view is unchanged, no request is issued, and all five form       *)
(* fields are empty afterwards.                                            *)
(***************************************************************************)
C12_LocalAppendFrame ==
    [][Submits =>
           /\ Len(ramenMenu') = Len(ramenMenu) + 1
           /\ SubSeq(ramenMenu', 1, Len(ramenMenu)) = ramenMenu
           /\ ramenMenu'[Len(ramenMenu')].tag = "img"
           /\ ramenMenu'[Len(ramenMenu')].src = form.image
           /\ ramenMenu'[Len(ramenMenu')].alt = form.name
           /\ detail' = detail
           /\ fetches' = fetches
           /\ form' = EmptyForm]_vars

C12_Witness ==
    /\ submits = 1
    /\ Len(ramenMenu) = 3
    /\ Selectable(ramenMenu[1]) /\ Selectable(ramenMenu[2])
    /\ ramenMenu[3].src = "b.jpg" /\ ramenMenu[3].alt = "Miso"
    /\ form = EmptyForm
    /\ detail = Snapshot(Tonkotsu)

(***************************************************************************)
(* C13 (the Detail Presenter rejects a missing Item).  Every step that     *)
(* handles a successful single-item response whose decoded body is null    *)
(* (renderDetail invoked with no Item) leaves every slot of the detail     *)
(* view as it was, a prior error state included.                           *)
(***************************************************************************)
C13_MissingItemRejected ==
    [][(Settles /\ fetches[NewSettlement.k].handler = "handleClick"
                /\ NewSettlement.resp = Http(TRUE, Null))
           => detail' = detail]_vars

\* a null body handled on top of the error state
C13_Witness ==
    /\ Len(settled) = 3
    /\ fetches[settled[2].k].handler = "handleClick"
    /\ settled[3].resp = Http(TRUE, Null)
    /\ Failed(settled[2].resp)
    /\ ErrorShown

(***************************************************************************)
(* C14 (a hung request blocks nothing and changes nothing).  As long as a  *)
(* request is in flight its handler changes nothing: #ramen-menu changes   *)
(* only by a submission or by the handling of a collection response, the   *)
(* detail view only by the handling of a single-item response.  Whatever   *)
(* is in flight, every node can be activated, the form can be submitted    *)
(* and every other pending response can be handled (up to the bounds of    *)
(* the model).  Every response is handled exactly once, and by exactly one *)
(* path: the step settles that one request and shows either the success    *)
(* outcome or the failure outcome.                                         *)
(***************************************************************************)
AllPending == {k \in DOMAIN fetches : fetches[k].state = "pending"}

NothingBlocked ==
    /\ Len(activations) < MaxClicks => \A i \in DOMAIN ramenMenu : ENABLED Click(i)
    /\ (submitArmed /\ submits < MaxSubmits) => ENABLED HandleFormSubmit
    /\ \A k \in Pending("displayRamens") :
           ENABLED (\E resp \in CollectionResponses : RamensSettle(k, resp))
    /\ \A k \in Pending("handleClick") :
           ENABLED (\E resp \in AllItemResponses : RamenSettle(k, resp))

HandledOnce ==
    \A k \in DOMAIN fetches :
        Cardinality({j \in DOMAIN settled : settled[j].k = k})
            = (IF fetches[k].state = "pending" THEN 0 ELSE 1)

C14_HungRequestBlocksNothing ==
    /\ [](NothingBlocked /\ HandledOnce)
    /\ [][/\ ramenMenu' # ramenMenu =>
               \/ Submits
               \/ Settles /\ fetches[NewSettlement.k].handler = "displayRamens"
          /\ detail' # detail =>
               Settles /\ fetches[NewSettlement.k].handler = "handleClick"
          /\ Settles =>
               /\ NewSettlement.k \in AllPending
               /\ AllPending' = AllPending \ {NewSettlement.k}
               /\ Len(fetches') = Len(fetches)
               /\ fetches[NewSettlement.k].handler = "displayRamens" =>
                      (ramenMenu' = <<FailureMessage>>)
                          <=> ~(\A i \in DOMAIN ramenMenu' : ClickWired(ramenMenu'[i]))
               /\ fetches[NewSettlement.k].handler = "handleClick" =>
                      /\ Failed(NewSettlement.resp) => ErrorShown'
                      /\ ItemFetched(NewSettlement.resp) => ~ErrorShown']_vars

\* a single-item request hangs while a later activation was answered and
\* handled and the form was submitted
C14_Witness ==
    /\ \E k \in Pending("handleClick") :
           \E j \in SettledBy("handleClick") :
               /\ settled[j].k > k
               /\ ItemFetched(settled[j].resp)
               /\ detail = Snapshot(settled[j].resp.body)
    /\ submits = 1
    /\ \E i \in DOMAIN ramenMenu : Inert(ramenMenu[i])

(***************************************************************************)
(* C15 (collection render is all-or-nothing).  Once the collection         *)
(* response has been handled, #ramen-menu holds either one click-wired     *)
(* node for every returned record, in order and with no failure message,   *)
(* or the failure message and no click-wired node at all.  The second is   *)
(* the case whenever rendering fails part-way (a success status whose body *)
(* is no array, or an array with an element that cannot be projected):     *)
(* the nodes built before the failure are replaced, never left displayed.  *)
(***************************************************************************)
C15_AllOrNothing ==
    \A j \in SettledBy("displayRamens") :
        LET resp == settled[j].resp
            wired == {i \in DOMAIN ramenMenu : ClickWired(ramenMenu[i])}
            messages == {i \in DOMAIN ramenMenu : ramenMenu[i] = FailureMessage}
        IN  IF RendersAll(resp)
            THEN /\ wired = 1..Len(resp.body.elems)
                 /\ \A i \in wired : ramenMenu[i].src = resp.body.elems[i].image.v
                 /\ messages = {}
            ELSE /\ wired = {}
                 /\ messages = {1}

\* the body [Shoyu, null] fails after one node was built; a node was
\* appended by the form afterwards
C15_Witness ==
    /\ \E j \in SettledBy("displayRamens") :
           settled[j].resp = Http(TRUE, Arr(<<Shoyu, Null>>))
    /\ Len(ramenMenu) = 2
    /\ ramenMenu[1] = FailureMessage
    /\ ramenMenu[2].alt = "Miso"

(***************************************************************************)
(* C16 (ordering of requests).  A single-item request has been issued only *)
(* if the collection response has been handled successfully with at least  *)
(* one Item; so while the collection request has failed or has not         *)
(* completed, no single-item request exists and the detail view holds its  *)
(* initial content.                                                        *)
(***************************************************************************)
LoadedAnItem ==
    \E j \in SettledBy("displayRamens") :
        /\ RendersAll(settled[j].resp)
        /\ \E i \in 1..Len(settled[j].resp.body.elems) :
               IsItem(settled[j].resp.body.elems[i])

C16_RequestOrdering ==
    /\ \A k \in IssuedBy("handleClick") : k > 1 /\ fetches[1].state = "settled"
    /\ ~LoadedAnItem => IssuedBy("handleClick") = {} /\ detail = InitialDetail

\* the collection request failed; the user then submitted the form and
\* activated what the menu holds, twice
C16_Witness ==
    /\ \E j \in SettledBy("displayRamens") : settled[j].resp = NetworkError
    /\ submits = 1
    /\ Len(activations) = 2
    /\ \E a \in DOMAIN activations : activations[a] = FailureMessage
    /\ \E a \in DOMAIN activations : activations[a].alt = "Miso"
    /\ detail = InitialDetail

====
